---------------------------- MODULE Spec2Model ----------------------------
(***************************************************************************)
(* Model of the header-insertion engine of add_headers.py.                 *)
(*                                                                         *)
(* A token is a string standing for one fixed string of the program (a     *)
(* sentinel marker, the "#!" prefix, the SPDX token, a comment delimiter,  *)
(* a label of the header) or for a run of ordinary characters ("x").  A    *)
(* text (a Python str) is a sequence of rows [body, end]: body is the      *)
(* tokens of a line, end the character that ends it ("\n", another line    *)
(* boundary such as "\f", or "" for a last line that is not ended).  `in`  *)
(* on a fixed string is membership of its token, startswith is a test of   *)
(* the first token.                                                        *)
(*                                                                         *)
(* A path is a sequence of segments: directory segments, the stem and the  *)
(* dot-suffixes of the file name, so that path + ".bak" is Append.         *)
(***************************************************************************)
EXTENDS Integers, Sequences, FiniteSets, TLC

(***************************************************************************)
(* Bounds of the model.                                                    *)
(***************************************************************************)
MaxRuns == 2        \* transactions (or directory runs) per behaviour
TicksPerDay == 2    \* clock ticks that share one calendar date

(***************************************************************************)
(* Module-level constants of add_headers.py.                               *)
(***************************************************************************)
HEADER_MARKER_BEGIN == "=== FILE-HEADER-START ==="
HEADER_MARKER_END == "=== FILE-HEADER-END ==="
NL == "\n"
FF == "\f"
SHEBANG == "#!"
SPDX == "SPDX-License-Identifier:"
RULE == "=============================================="
PLACEHOLDER == <<"[Dosya aciklamasi]">>
SpdxScanLines == 10

\* Characters at which str.splitlines() ends a line.
LineBreaks == {NL, FF}

COMMENT_STYLES ==
    [e \in {".c", ".h", ".cpp", ".hpp", ".php", ".css", ".scss"} |->
        [start |-> "/*", end |-> "*/", single |-> FALSE]]
    @@ [e \in {".java", ".js", ".ts", ".jsx", ".tsx", ".go", ".swift", ".kt"} |->
        [start |-> "/**", end |-> "*/", single |-> FALSE]]
    @@ [e \in {".py"} |-> [start |-> "\"\"\"", end |-> "\"\"\"", single |-> FALSE]]
    @@ [e \in {".sh", ".bash", ".zsh", ".rb"} |->
        [start |-> "#", end |-> "", single |-> TRUE]]
    @@ [e \in {".sol"} |-> [start |-> "//", end |-> "", single |-> TRUE]]

SKIP_EXTS ==
    {".json", ".yml", ".yaml", ".toml", ".lock",
     ".png", ".jpg", ".jpeg", ".gif", ".webp", ".svg", ".ico",
     ".pdf", ".zip", ".gz", ".bz2", ".xz", ".7z",
     ".bin", ".o", ".so", ".dylib", ".a", ".class", ".jar"}

(***************************************************************************)
(* Strings and lists, as Python computes them.                             *)
(***************************************************************************)
Last(s) == s[Len(s)]

Row(body, end) == [body |-> body, end |-> end]

EmptyText == <<>>

\* The str "\n"
TextNL == <<Row(<<>>, NL)>>

\* a + b
Concat(a, b) ==
    IF a = <<>> THEN b
    ELSE IF b = <<>> THEN a
    ELSE IF Last(a).end # "" THEN a \o b
    ELSE SubSeq(a, 1, Len(a) - 1)
            \o <<Row(Last(a).body \o b[1].body, b[1].end)>>
            \o SubSeq(b, 2, Len(b))

\* str.splitlines(): a line ends at every line boundary, the boundary is
\* dropped, and a boundary at the end of the text opens no further line.
Splitlines(t) == [i \in 1..Len(t) |-> t[i].body]

\* "\n".join(lines): "\n" between the lines, none after the last.
JoinNL(lines) ==
    LET n == Len(lines)
    IN IF n = 0 THEN <<>>
       ELSE [i \in 1..(n - 1) |-> Row(lines[i], NL)]
               \o (IF lines[n] = <<>> THEN <<>> ELSE <<Row(lines[n], "")>>)

\* tok in line, line.startswith(tok)
LineHas(line, tok) == \E j \in 1..Len(line) : line[j] = tok
StartsWith(line, tok) == Len(line) > 0 /\ line[1] = tok

\* tok in text
Contains(t, tok) == \E i \in 1..Len(t) : LineHas(t[i].body, tok)

\* text.endswith("\n")
EndsWithNL(t) == Len(t) > 0 /\ Last(t).end = NL

\* The occurrences of tok in a list of lines, in a text.
CountIn(lines, tok) ==
    Cardinality(UNION {{<<i, j>> : j \in {k \in 1..Len(lines[i]) : lines[i][k] = tok}} :
                          i \in 1..Len(lines)})
Count(t, tok) == CountIn(Splitlines(t), tok)

\* lines[:n] and lines[n:]
Take(s, n) == SubSeq(s, 1, IF n < Len(s) THEN n ELSE Len(s))
Drop(s, n) == SubSeq(s, n + 1, Len(s))

\* The first k <= 1 characters of a text.
Prefix(t, k) ==
    IF k = 0 \/ t = <<>> THEN <<>>
    ELSE IF t[1].body = <<>> THEN <<t[1]>>
    ELSE <<Row(<<t[1].body[1]>>, "")>>

\* The text of a sequence of tokens and line boundaries.
RECURSIVE TextFrom(_, _)
TextFrom(s, cur) ==
    IF s = <<>> THEN (IF cur = <<>> THEN <<>> ELSE <<Row(cur, "")>>)
    ELSE IF Head(s) \in LineBreaks THEN <<Row(cur, Head(s))>> \o TextFrom(Tail(s), <<>>)
    ELSE TextFrom(Tail(s), Append(cur, Head(s)))

Text(s) == TextFrom(s, <<>>)

Max(a, b) == IF a >= b THEN a ELSE b

(***************************************************************************)
(* Paths.                                                                  *)
(***************************************************************************)
DirSegs == {"proj/", ".git/", "node_modules/"}

Lower(e) ==
    CASE e = ".PY" -> ".py"
      [] e = ".JSON" -> ".json"
      [] OTHER -> e

Suffixes ==
    DOMAIN COMMENT_STYLES \cup SKIP_EXTS \cup {".PY", ".JSON", ".bak", ".txt"}

\* os.path.basename(path)
RECURSIVE Basename(_)
Basename(path) ==
    IF path = <<>> THEN <<>>
    ELSE IF Head(path) \in DirSegs THEN Basename(Tail(path))
    ELSE path

\* os.path.splitext(path)[1]: the last dot-suffix of the base name, unless
\* the base name is nothing but that suffix (a hidden file).
SplitExt(path) ==
    LET b == Basename(path)
    IN IF Len(b) > 1 /\ Last(b) \in Suffixes THEN Last(b) ELSE ""

BakOf(path) == Append(path, ".bak")

(***************************************************************************)
(* Comment style, usage block, description, header text.                   *)
(***************************************************************************)
choose_comment_style(ext) ==
    IF ext \in DOMAIN COMMENT_STYLES THEN COMMENT_STYLES[ext]
    ELSE [start |-> "/*", end |-> "*/", single |-> FALSE]

\* A faulty variant: every style is wrapped as a block style.
Wrap_BlockOnly(style, lines) ==
    Concat(JoinNL(<<(<<style.start>>)>> \o lines \o <<(<<style.end>>)>>),
           TextNL \o TextNL)

\* "\n".join of the lines in the comment style, followed by "\n\n".
Wrap(style, lines) ==
    IF style.single
    THEN Concat(JoinNL([i \in 1..Len(lines) |-> <<style.start, " ">> \o lines[i]]),
                TextNL \o TextNL)
    ELSE Concat(JoinNL(<<(<<style.start>>)>> \o lines \o <<(<<style.end>>)>>),
                TextNL \o TextNL)

\* USAGE_BLOCK.strip().splitlines(): the rule, the title lines, the three
\* sections, the rule; no line holds a sentinel.
USAGE_LINES ==
    << <<"==========================================================">>,
       <<" Script:      add_headers.py">>,
       <<" Author:      Irfan Gedik">>,
       <<" Created:     27.09.2025">>,
       <<" Last Update: 27.09.2025">>,
       <<" Version:     1.1">>,
       <<>>,
       <<" Description:">>,
       <<"   (description text)">>,
       <<>>,
       <<" Usage:">>,
       <<"   python3 add_headers.py <dosya_veya_klasor> [opsiyonlar]">>,
       <<>>,
       <<" Options:">>,
       <<"   (option lines)">>,
       <<"==========================================================">> >>

build_usage_block(ext) == Wrap(choose_comment_style(ext), USAGE_LINES)

Lang(ext) ==
    CASE ext = ".py" -> "Python"
      [] ext = ".sol" -> "Solidity"
      [] ext = ".c" -> "C"
      [] ext = ".js" -> "JavaScript"
      [] ext = "" -> "Kod"
      [] OTHER -> ext

\* The heuristic description: a rule on the stem, else "<lang> modulu".
infer_description(path, ext) ==
    LET b == Basename(path)
    IN IF Len(b) > 0 /\ b[1] \in {"main", "entry", "bootstrap"}
       THEN <<"Giris noktasi (", Lang(ext), ")">>
       ELSE <<Lang(ext), " modulu">>

\* datetime.strftime("%d.%m.%Y"): the calendar date of a timestamp.
Strftime(ts) == ToString(ts \div TicksPerDay)

core_lines(file_name, author, created_dt, today_dt, version, license_text, description) ==
    << <<HEADER_MARKER_BEGIN>>,
       <<RULE>>,
       <<" File:        ">> \o file_name,
       <<" Author:      ">> \o author,
       <<" Created:     ", Strftime(created_dt)>>,
       <<" Last Update: ", Strftime(today_dt)>>,
       <<" Version:     ">> \o version,
       <<>>,
       <<" Description:">>,
       <<"   ">> \o (IF description = <<>> THEN PLACEHOLDER ELSE description),
       <<>>,
       <<" License:">>,
       <<"   ">> \o license_text,
       <<RULE>>,
       <<HEADER_MARKER_END>> >>

build_header_text(file_name, author, created_dt, today_dt, version, license_text, description, ext) ==
    Wrap(choose_comment_style(ext),
         core_lines(file_name, author, created_dt, today_dt, version,
                    license_text, description))

(***************************************************************************)
(* Creation date: birth time, else oldest git addition, else mtime, else   *)
(* the current time.                                                       *)
(***************************************************************************)
NoDate == -1

\* run_git_date: the last line of the git log output (the oldest addition);
\* no output, a failing command or a malformed date give None.
run_git_date(gitout) ==
    IF gitout.fails \/ gitout.lines = <<>> THEN NoDate
    ELSE IF Last(gitout.lines) < 0 THEN NoDate
    ELSE Last(gitout.lines)

\* Faulty variants: the git date is preferred to the birth time; the current
\* time is returned in place of the last-modified time.
get_file_creation_date_GitFirst(st, has_birthtime, gitout, today) ==
    IF run_git_date(gitout) # NoDate THEN run_git_date(gitout)
    ELSE IF st.ok /\ has_birthtime /\ st.birth > 0 THEN st.birth
    ELSE IF st.ok THEN st.mtime
    ELSE today

get_file_creation_date_TodayForMtime(st, has_birthtime, gitout, today) ==
    IF st.ok /\ has_birthtime /\ st.birth > 0 THEN st.birth
    ELSE IF run_git_date(gitout) # NoDate THEN run_git_date(gitout)
    ELSE today

\* st is the result of os.stat(path); st.ok = FALSE when stat raises.
get_file_creation_date(st, has_birthtime, gitout, today) ==
    IF st.ok /\ has_birthtime /\ st.birth > 0 THEN st.birth
    ELSE IF run_git_date(gitout) # NoDate THEN run_git_date(gitout)
    ELSE IF st.ok THEN st.mtime
    ELSE today

(***************************************************************************)
(* Insertion planner.                                                      *)
(***************************************************************************)
\* The index (from 0) of the first of the lines that holds the SPDX token,
\* or -1.
FirstSpdx(lines) ==
    IF \E i \in 1..Len(lines) : LineHas(lines[i], SPDX)
    THEN (CHOOSE i \in 1..Len(lines) :
             /\ LineHas(lines[i], SPDX)
             /\ \A j \in 1..(i - 1) : ~LineHas(lines[j], SPDX)) - 1
    ELSE -1

\* A faulty variant: the license line is looked for whatever the extension.
detect_shebang_and_spdx_AnyExt(lines, ext) ==
    [shebang_end |-> IF lines # <<>> /\ StartsWith(lines[1], SHEBANG) THEN 0 ELSE -1,
     spdx_idx |-> FirstSpdx(Take(lines, SpdxScanLines))]

detect_shebang_and_spdx(lines, ext) ==
    [shebang_end |-> IF lines # <<>> /\ StartsWith(lines[1], SHEBANG) THEN 0 ELSE -1,
     spdx_idx |-> IF ext = ".sol"
                  THEN FirstSpdx(Take(lines, SpdxScanLines))
                  ELSE -1]

\* A faulty variant: the BEGIN sentinel is looked for at the start of the
\* text only.
already_has_header_AtStart(content) ==
    /\ Len(content) > 0 /\ StartsWith(content[1].body, HEADER_MARKER_BEGIN)
    /\ Contains(content, HEADER_MARKER_END)

\* A faulty variant: the BEGIN sentinel alone counts as a header.
already_has_header_BeginOnly(content) == Contains(content, HEADER_MARKER_BEGIN)

already_has_header(content) ==
    Contains(content, HEADER_MARKER_BEGIN) /\ Contains(content, HEADER_MARKER_END)

\* Faulty variants: the shebang is not looked at; the header goes before
\* the license line.
InsertAt_NoShebang(lines, ext) ==
    LET d == detect_shebang_and_spdx(lines, ext)
    IN IF d.spdx_idx # -1 THEN d.spdx_idx + 1 ELSE 0

InsertAt_BeforeLicense(lines, ext) ==
    LET d == detect_shebang_and_spdx(lines, ext)
        a == IF d.spdx_idx # -1 THEN d.spdx_idx ELSE 0
    IN IF d.shebang_end # -1 THEN Max(a, d.shebang_end + 1) ELSE a

\* insert_at of process_file
InsertAt(lines, ext) ==
    LET d == detect_shebang_and_spdx(lines, ext)
        a == IF d.spdx_idx # -1 THEN d.spdx_idx + 1 ELSE 0
    IN IF d.shebang_end # -1 THEN Max(a, d.shebang_end + 1) ELSE a

\* A faulty variant: the header replaces the text.
Splice_HeaderOnly(content, header, ext) == header

\* new_content of process_file
Splice(content, header, ext) ==
    LET lines == Splitlines(content)
        insert_at == InsertAt(lines, ext)
    IN Concat(Concat(Concat(Concat(JoinNL(Take(lines, insert_at)),
                                   IF insert_at > 0 THEN TextNL ELSE EmptyText),
                            header),
                     JoinNL(Drop(lines, insert_at))),
              IF EndsWithNL(content) THEN TextNL ELSE EmptyText)

(***************************************************************************)
(* Skip filter.                                                            *)
(***************************************************************************)
\* A faulty variant: the exclude patterns are not looked at.
should_skip_NoExclude(path, include_exts, exclude_globs) ==
    LET ext == Lower(SplitExt(path))
    IN \/ ext \in SKIP_EXTS
       \/ include_exts # {} /\ ext \notin include_exts

should_skip(path, include_exts, exclude_globs) ==
    LET ext == Lower(SplitExt(path))
    IN \/ ext \in SKIP_EXTS
       \/ include_exts # {} /\ ext \notin include_exts
       \/ \E pat \in exclude_globs : pat # "" /\ LineHas(path, pat)

(***************************************************************************)
(* The filesystem: a function from the paths of the existing files to      *)
(* [data, birth, mtime].  open(path, "w") truncates or creates the file    *)
(* before anything is written to it; both the open and the write (or the   *)
(* flush at close) can raise.                                              *)
(***************************************************************************)
WriteOutcomes == {"ok", "open_fail", "write_fail"}

\* How many tokens had reached the file when a write raised.
FlushedBeforeFailure == {0, 1}

IOAllOk == [read |-> "ok", stat |-> "ok", bak |-> "ok", write |-> "ok", flushed |-> 0]

\* What the environment does to one transaction: nothing, or one failure
\* (the transaction ends at the first step that raises).
IOOutcomes ==
    {IOAllOk, [IOAllOk EXCEPT !.read = "fail"],
     [IOAllOk EXCEPT !.bak = "open_fail"], [IOAllOk EXCEPT !.write = "open_fail"]}
    \cup {[IOAllOk EXCEPT !.bak = "write_fail", !.flushed = k] : k \in FlushedBeforeFailure}
    \cup {[IOAllOk EXCEPT !.write = "write_fail", !.flushed = k] : k \in FlushedBeforeFailure}

StoreFile(F, path, data, t) ==
    IF path \in DOMAIN F
    THEN [F EXCEPT ![path] = [@ EXCEPT !.data = data, !.mtime = t]]
    ELSE (path :> [data |-> data, birth |-> t, mtime |-> t]) @@ F

\* with open(path, "w") as f: f.write(data)
OpenAndWrite(F, path, data, t, outcome, flushed) ==
    CASE outcome = "ok" -> StoreFile(F, path, data, t)
      [] outcome = "open_fail" -> F
      [] outcome = "write_fail" ->
            StoreFile(F, path, Prefix(data, flushed), t)

(***************************************************************************)
(* The transaction on one file.  The result holds the returned pair        *)
(* (ok, status), the filesystem it leaves, the steps it went through and   *)
(* the number of files it created or overwrote.                            *)
(***************************************************************************)
Statuses ==
    {"SKIP_FILTER", "READ_FAIL", "ALREADY", "DRY_RUN", "BACKUP_FAIL", "WRITE_FAIL",
     "ADDED", "UPDATED"}

Result(ok, tag, F, steps, baks, writes, raised, created, stat_ok) ==
    [ok |-> ok, tag |-> tag, files |-> F, steps |-> steps, baks |-> baks,
     writes |-> writes, raised |-> raised, created |-> created, stat_ok |-> stat_ok]

EffectiveDescription(path, ext, args) ==
    IF args.auto_description \/ args.description \in {<<>>, PLACEHOLDER}
    THEN infer_description(path, ext)
    ELSE args.description

\* A faulty variant: the date of the Created line of a header the file
\* already holds is kept.
CreatedFor_FromHeader(F, path, io, has_birthtime_, gitout, today) ==
    LET lines == Splitlines(F[path].data)
        st == [ok |-> io.stat = "ok", birth |-> F[path].birth, mtime |-> F[path].mtime]
        dated == {k \in 1..Len(lines) : Len(lines[k]) = 2 /\ lines[k][1] = " Created:     "}
    IN IF dated = {}
       THEN get_file_creation_date(st, has_birthtime_, gitout, today)
       ELSE CHOOSE ts \in 0..(20 * TicksPerDay) :
                \E k \in dated : Strftime(ts) = lines[k][2]

\* created_dt of process_file; io.stat says whether os.stat(path) raises.
CreatedFor(F, path, io, has_birthtime_, gitout, today) ==
    LET st == [ok |-> io.stat = "ok", birth |-> F[path].birth, mtime |-> F[path].mtime]
    IN get_file_creation_date(st, has_birthtime_, gitout, today)

\* A faulty variant: the usage block is put after the metadata block.
HeaderFor_UsageAfter(F, path, args, io, has_birthtime_, gitout, today) ==
    LET ext == Lower(SplitExt(path))
        created_dt == CreatedFor(F, path, io, has_birthtime_, gitout, today)
        header == build_header_text(Basename(path), args.author, created_dt, today,
                                    args.version, args.license,
                                    EffectiveDescription(path, ext, args), ext)
    IN IF args.with_usage THEN Concat(header, build_usage_block(ext)) ELSE header

HeaderFor(F, path, args, io, has_birthtime_, gitout, today) ==
    LET ext == Lower(SplitExt(path))
        created_dt == CreatedFor(F, path, io, has_birthtime_, gitout, today)
        header == build_header_text(Basename(path), args.author, created_dt, today,
                                    args.version, args.license,
                                    EffectiveDescription(path, ext, args), ext)
    IN IF args.with_usage THEN Concat(build_usage_block(ext), header) ELSE header

\* A faulty variant: the backup is written whether or not one exists.
MakesBackup_Always(F, bak, args) == ~args.no_backup

\* A faulty variant: the --no-backup flag is not looked at.
MakesBackup_IgnoresFlag(F, bak, args) == bak \notin DOMAIN F

\* Whether the backup step writes path + ".bak": backups are wanted and
\* os.path.exists(bak) is false.
MakesBackup(F, bak, args) == ~args.no_backup /\ bak \notin DOMAIN F

\* Faulty variants: no dry-run check; a failed backup does not end the run;
\* a failed read is not caught.
StatusOf_NoDryRun(skip, read_ok, already, args, bak_ok, write_ok) ==
    IF skip THEN "SKIP_FILTER"
    ELSE IF ~read_ok THEN "READ_FAIL"
    ELSE IF already /\ ~args.overwrite THEN "ALREADY"
    ELSE IF ~bak_ok THEN "BACKUP_FAIL"
    ELSE IF ~write_ok THEN "WRITE_FAIL"
    ELSE IF already THEN "UPDATED"
    ELSE "ADDED"

StatusOf_BackupFailIgnored(skip, read_ok, already, args, bak_ok, write_ok) ==
    IF skip THEN "SKIP_FILTER"
    ELSE IF ~read_ok THEN "READ_FAIL"
    ELSE IF already /\ ~args.overwrite THEN "ALREADY"
    ELSE IF args.dry_run THEN "DRY_RUN"
    ELSE IF ~write_ok THEN "WRITE_FAIL"
    ELSE IF already THEN "UPDATED"
    ELSE "ADDED"

StatusOf_ReadEscapes(skip, read_ok, already, args, bak_ok, write_ok) ==
    IF skip THEN "SKIP_FILTER"
    ELSE IF ~read_ok THEN "EXCEPTION"
    ELSE IF already /\ ~args.overwrite THEN "ALREADY"
    ELSE IF args.dry_run THEN "DRY_RUN"
    ELSE IF ~bak_ok THEN "BACKUP_FAIL"
    ELSE IF ~write_ok THEN "WRITE_FAIL"
    ELSE IF already THEN "UPDATED"
    ELSE "ADDED"

\* Faulty variants: the dry-run check comes before the idempotency check;
\* every written file is reported as ADDED.
StatusOf_DryRunFirst(skip, read_ok, already, args, bak_ok, write_ok) ==
    IF skip THEN "SKIP_FILTER"
    ELSE IF ~read_ok THEN "READ_FAIL"
    ELSE IF args.dry_run THEN "DRY_RUN"
    ELSE IF already /\ ~args.overwrite THEN "ALREADY"
    ELSE IF ~bak_ok THEN "BACKUP_FAIL"
    ELSE IF ~write_ok THEN "WRITE_FAIL"
    ELSE IF already THEN "UPDATED"
    ELSE "ADDED"

StatusOf_AlwaysAdded(skip, read_ok, already, args, bak_ok, write_ok) ==
    IF skip THEN "SKIP_FILTER"
    ELSE IF ~read_ok THEN "READ_FAIL"
    ELSE IF already /\ ~args.overwrite THEN "ALREADY"
    ELSE IF args.dry_run THEN "DRY_RUN"
    ELSE IF ~bak_ok THEN "BACKUP_FAIL"
    ELSE IF ~write_ok THEN "WRITE_FAIL"
    ELSE "ADDED"

\* The returns of process_file in the order of its code; read_ok, bak_ok and
\* write_ok say that the step did not raise.
StatusOf(skip, read_ok, already, args, bak_ok, write_ok) ==
    IF skip THEN "SKIP_FILTER"
    ELSE IF ~read_ok THEN "READ_FAIL"
    ELSE IF already /\ ~args.overwrite THEN "ALREADY"
    ELSE IF args.dry_run THEN "DRY_RUN"
    ELSE IF ~bak_ok THEN "BACKUP_FAIL"
    ELSE IF ~write_ok THEN "WRITE_FAIL"
    ELSE IF already THEN "UPDATED"
    ELSE "ADDED"

\* The steps behind a status.
StepsOf(tag) ==
    LET planned == <<"filter", "read", "plan", "resolve", "compose", "splice", "dry">>
    IN CASE tag = "SKIP_FILTER" -> <<"filter">>
         [] tag = "READ_FAIL" -> <<"filter", "read">>
         [] tag = "ALREADY" -> <<"filter", "read", "plan">>
         [] tag = "DRY_RUN" -> planned
         [] tag = "BACKUP_FAIL" -> Append(planned, "backup")
         [] OTHER -> planned \o <<"backup", "write">>

\* A faulty variant: a dry run goes on to the write.
ReachesWrite_DryToo(tag) == tag \in {"DRY_RUN", "WRITE_FAIL", "ADDED", "UPDATED"}

\* The statuses of the runs that entered the backup block, the write block.
ReachesBackup(tag) == tag \in {"BACKUP_FAIL", "WRITE_FAIL", "ADDED", "UPDATED"}
ReachesWrite(tag) == tag \in {"WRITE_FAIL", "ADDED", "UPDATED"}

process_file(F, path, args, io, has_birthtime_, gitout, today) ==
    LET ext == Lower(SplitExt(path))
        skip == should_skip(path, args.include_exts, args.exclude)
        read_ok == path \in DOMAIN F /\ io.read = "ok"
        content == F[path].data
        already == already_has_header(content)
        header == HeaderFor(F, path, args, io, has_birthtime_, gitout, today)
        new_content == Splice(content, header, ext)
        bak == BakOf(path)
        makes_bak == MakesBackup(F, bak, args)
        bak_ok == ~(makes_bak /\ io.bak # "ok")
        write_ok == io.write = "ok"
        F1 == IF makes_bak
              THEN OpenAndWrite(F, bak, content, today, io.bak, io.flushed)
              ELSE F
        F2 == OpenAndWrite(F1, path, new_content, today, io.write, io.flushed)
        tag == StatusOf(skip, read_ok, already, args, bak_ok, write_ok)
        reaches_bak == ReachesBackup(tag)
        reaches_write == ReachesWrite(tag)
        raised == IF ~skip /\ ~read_ok THEN "read"
                  ELSE IF reaches_bak /\ ~bak_ok THEN "backup"
                  ELSE IF reaches_write /\ ~write_ok THEN "write"
                  ELSE "none"
    IN Result(tag \in {"DRY_RUN", "ADDED", "UPDATED"},
              tag,
              IF reaches_write THEN F2 ELSE IF reaches_bak THEN F1 ELSE F,
              StepsOf(tag),
              IF reaches_bak /\ makes_bak /\ io.bak # "open_fail" THEN 1 ELSE 0,
              IF reaches_write /\ io.write # "open_fail" THEN 1 ELSE 0,
              raised,
              IF tag \in {"SKIP_FILTER", "READ_FAIL", "ALREADY"} THEN NoDate
              ELSE CreatedFor(F, path, io, has_birthtime_, gitout, today),
              tag \in {"SKIP_FILTER", "READ_FAIL", "ALREADY"} \/ io.stat = "ok")

(***************************************************************************)
(* Command line.                                                           *)
(***************************************************************************)
DefaultArgs ==
    [author |-> <<"Irfan Gedik">>, version |-> <<"1.0">>, license |-> <<"MIT License">>,
     description |-> PLACEHOLDER, auto_description |-> FALSE,
     include_exts |-> {}, exclude |-> {},
     dry_run |-> FALSE, no_backup |-> FALSE, overwrite |-> FALSE,
     with_hidden |-> FALSE, with_usage |-> FALSE]

\* The command lines of the runs: every combination of the three flags that
\* steer the transaction.
ArgsSet ==
    {[DefaultArgs EXCEPT !.overwrite = o, !.dry_run = d, !.no_backup = b] :
        o \in BOOLEAN, d \in BOOLEAN, b \in BOOLEAN}

(***************************************************************************)
(* State.                                                                  *)
(***************************************************************************)
VARIABLES
    fs,             \* the filesystem
    has_birthtime,  \* whether os.stat results carry st_birthtime
    git,            \* path -> output of the git log query
    now,            \* the clock
    hist,           \* the transactions so far: [path, args, tag, ok, pre, ...]
    runs,           \* the number of program runs started
    pc,             \* "idle", or "walk" inside walk_and_process
    pending,        \* walk_and_process: the listed files not yet visited
    wargs,          \* walk_and_process: the args of the run
    stats           \* the counters of the last run

vars == <<fs, has_birthtime, git, now, hist, runs, pc, pending, wargs, stats>>

NoGit == [fails |-> FALSE, lines |-> <<>>]

GitOut(path) == IF path \in DOMAIN git THEN git[path] ELSE NoGit

ZeroStats ==
    [added |-> 0, updated |-> 0, skipped |-> 0, failed |-> 0, dry |-> 0, already |-> 0]

\* A faulty variant: a failed transaction is counted as skipped.
CounterOf_FailAsSkipped(tag) ==
    CASE tag = "ADDED" -> "added"
      [] tag = "UPDATED" -> "updated"
      [] tag = "ALREADY" -> "already"
      [] tag = "DRY_RUN" -> "dry"
      [] OTHER -> "skipped"

\* The counter a status is counted in (the if/elif chain of the two callers).
CounterOf(tag) ==
    CASE tag = "ADDED" -> "added"
      [] tag = "UPDATED" -> "updated"
      [] tag = "ALREADY" -> "already"
      [] tag = "DRY_RUN" -> "dry"
      [] tag \in {"READ_FAIL", "WRITE_FAIL", "BACKUP_FAIL"} -> "failed"
      [] OTHER -> "skipped"

Count1(st, tag) == [st EXCEPT ![CounterOf(tag)] = @ + 1]

\* One transaction in the history: what it was called with (run: the
\* program run it belongs to; pre: the filesystem it found; at: the clock)
\* and what it returned and did (created: the creation date it resolved,
\* stat_ok: whether os.stat succeeded for it).
Entry(path, args, r, run) ==
    [path |-> path, args |-> args, run |-> run, pre |-> fs, at |-> now,
     tag |-> r.tag, ok |-> r.ok, steps |-> r.steps, baks |-> r.baks,
     writes |-> r.writes, raised |-> r.raised, created |-> r.created,
     stat_ok |-> r.stat_ok]

\* The filesystem a transaction of the history left behind.
Post(i) == IF i = Len(hist) THEN fs ELSE hist[i + 1].pre

(***************************************************************************)
(* Inputs.                                                                 *)
(***************************************************************************)
MaxLen == 3

Alphabet == {"x", NL, FF, SHEBANG, SPDX, HEADER_MARKER_BEGIN, HEADER_MARKER_END}

\* Every text of at most MaxLen tokens and line boundaries.
ShortContents == {Text(s) : s \in UNION {[1..n -> Alphabet] : n \in 0..MaxLen}}

\* Files of the shapes the transaction distinguishes: without a header, with
\* one sentinel only, with both sentinels; with a shebang or a license line.
Sources ==
    {[path |-> <<"a", ".py">>, data |-> Text(c)] :
        c \in { <<>>,
                <<"x", NL>>,
                <<SHEBANG, "x", NL, "x">>,
                <<HEADER_MARKER_BEGIN, NL, "x", NL>>,
                <<HEADER_MARKER_END, NL, HEADER_MARKER_BEGIN, NL>>,
                <<SHEBANG, "x", NL, HEADER_MARKER_BEGIN, NL, "x", NL,
                  HEADER_MARKER_END, NL, "x", NL>> }}
    \cup
    {[path |-> <<"t", ".sol">>, data |-> Text(c)] :
        c \in { <<"x", SPDX, "x", NL, "x", NL>>,
                <<"x", SPDX, NL, HEADER_MARKER_BEGIN, HEADER_MARKER_END, NL>> }}
    \cup
    {[path |-> <<"d", ".json">>, data |-> Text(<<"x", NL>>)]}

TargetPaths == {<<"a", ".py">>, <<"t", ".sol">>}

SkippedPath == <<"d", ".json">>

NewFile(data) == [data |-> data, birth |-> 0, mtime |-> 0]

InitRest ==
    /\ has_birthtime = FALSE
    /\ git = <<>>
    /\ now = 1
    /\ hist = <<>>
    /\ runs = 0
    /\ pc = "idle"
    /\ pending = {}
    /\ wargs = DefaultArgs
    /\ stats = ZeroStats

Init ==
    /\ \E f \in Sources : fs = (f.path :> NewFile(f.data))
    /\ InitRest

(***************************************************************************)
(* main() on a file: one transaction, counted in fresh counters.           *)
(***************************************************************************)
MainFile(path, args, io) ==
    /\ pc = "idle"
    /\ runs < MaxRuns
    /\ LET r == process_file(fs, path, args, io, has_birthtime, GitOut(path), now)
       IN /\ fs' = r.files
          /\ hist' = Append(hist, Entry(path, args, r, runs + 1))
          /\ stats' = Count1(ZeroStats, r.tag)
    /\ runs' = runs + 1
    /\ now' = now + 1
    /\ UNCHANGED <<has_birthtime, git, pc, pending, wargs>>

\* The file the runs of a behaviour are about: the one that is no backup.
IsBackup(path) == Last(path) = ".bak"

RunOnFile ==
    \E path \in DOMAIN fs, args \in ArgsSet, io \in IOOutcomes :
        /\ ~IsBackup(path)
        /\ MainFile(path, args, io)

Next == RunOnFile

Spec == Init /\ [][Next]_vars

(***************************************************************************)
(* SpecPlan: every short text, refreshed by successful overwrite runs.     *)
(***************************************************************************)
\* n blank lines, then a license line, then a line of code.
LicenseAtLine(n) == Text([i \in 1..n |-> NL] \o <<"x", SPDX, NL, "x", NL>>)

PlanContents ==
    ShortContents \cup {LicenseAtLine(SpdxScanLines - 1), LicenseAtLine(SpdxScanLines)}

InitPlan ==
    /\ \E p \in TargetPaths, c \in PlanContents : fs = (p :> NewFile(c))
    /\ InitRest

RefreshFile ==
    \E path \in DOMAIN fs :
        /\ ~IsBackup(path)
        /\ MainFile(path, [DefaultArgs EXCEPT !.overwrite = TRUE], IOAllOk)

NextPlan == RefreshFile

SpecPlan == InitPlan /\ [][NextPlan]_vars

(***************************************************************************)
(* main() on a directory: walk_and_process.  os.walk lists the directory   *)
(* once, before the first file is visited, in an order of its own.         *)
(***************************************************************************)
MaxWalks == 2

HiddenDirs == {".git/"}
HiddenNames == {".env"}

StartsWithDot(path) == Len(Basename(path)) > 0 /\ Basename(path)[1] \in HiddenNames
InHiddenDir(path) == \E i \in 1..Len(path) : path[i] \in HiddenDirs

Listing(F, with_hidden) ==
    {p \in DOMAIN F : with_hidden \/ (~StartsWithDot(p) /\ ~InHiddenDir(p))}

WalkArgs ==
    {DefaultArgs, [DefaultArgs EXCEPT !.overwrite = TRUE],
     [DefaultArgs EXCEPT !.dry_run = TRUE]}

WalkIO ==
    {IOAllOk, [IOAllOk EXCEPT !.read = "fail"], [IOAllOk EXCEPT !.bak = "open_fail"],
     [IOAllOk EXCEPT !.write = "open_fail"]}

WalkStart(args) ==
    /\ pc = "idle"
    /\ runs < MaxWalks
    /\ pc' = "walk"
    /\ pending' = Listing(fs, args.with_hidden)
    /\ wargs' = args
    /\ stats' = ZeroStats
    /\ runs' = runs + 1
    /\ UNCHANGED <<fs, has_birthtime, git, now, hist>>

\* A faulty variant: a failed file ends the traversal.
Remaining_StopOnFail(files, path, tag) ==
    IF CounterOf(tag) = "failed" THEN {} ELSE files \ {path}

\* The files the loop has still to visit after path: the outcome of path
\* plays no part.
Remaining(files, path, tag) == files \ {path}

WalkFile(path, io) ==
    /\ pc = "walk"
    /\ path \in pending
    /\ LET r == process_file(fs, path, wargs, io, has_birthtime, GitOut(path), now)
       IN /\ fs' = r.files
          /\ hist' = Append(hist, Entry(path, wargs, r, runs))
          /\ stats' = Count1(stats, r.tag)
          /\ pending' = Remaining(pending, path, r.tag)
    /\ now' = now + 1
    /\ UNCHANGED <<has_birthtime, git, runs, pc, wargs>>

WalkEnd ==
    /\ pc = "walk"
    /\ pending = {}
    /\ pc' = "idle"
    /\ UNCHANGED <<fs, has_birthtime, git, now, hist, runs, pending, wargs, stats>>

StartWalk == \E args \in WalkArgs : WalkStart(args)
VisitFile == \E path \in pending, io \in WalkIO : WalkFile(path, io)

InitWalk ==
    /\ \/ fs = (<<"a", ".py">> :> NewFile(Text(<<"x", NL>>)))
       \/ fs = (SkippedPath :> NewFile(Text(<<"x">>)))
    /\ InitRest

NextWalk == StartWalk \/ VisitFile \/ WalkEnd

SpecWalk == InitWalk /\ [][NextWalk]_vars

(***************************************************************************)
(* SpecFilter: one file, run with include lists and exclude patterns.      *)
(***************************************************************************)
FilterPaths ==
    {<<"a", ".py">>, <<"a", ".PY">>, <<"d", ".json">>, <<"d", ".JSON">>,
     <<"node_modules/", "a", ".py">>, <<"a">>, <<"a", ".txt">>}

\* --include-exts and --exclude as typed; "" is the empty argument.
IncludeLists == {{}, {".py"}, {".PY"}, {".sol"}, {".py", ".json", ".txt"}}
ExcludeLists == {{}, {""}, {"node_modules/"}, {"a"}, {".py"}, {"", "zzz"}}

FilterArgs ==
    {[DefaultArgs EXCEPT !.include_exts = inc, !.exclude = exc] :
        inc \in IncludeLists, exc \in ExcludeLists}

InitFilter ==
    /\ \E p \in FilterPaths : fs = (p :> NewFile(Text(<<"x", NL>>)))
    /\ InitRest

FilterRun ==
    \E path \in DOMAIN fs, args \in FilterArgs :
        /\ ~IsBackup(path)
        /\ MainFile(path, args, IOAllOk)

NextFilter == FilterRun

SpecFilter == InitFilter /\ [][NextFilter]_vars

(***************************************************************************)
(* SpecDates: one file under the platforms, git histories and stat         *)
(* outcomes the creation date depends on.  Timestamps of the file and of   *)
(* git lie beyond the clock values of the runs.                            *)
(***************************************************************************)
DatedPath == <<"a", ".py">>

\* st_birthtime (0: the filesystem reports none) and st_mtime of the file.
BirthTimes == {0, 12}
ModifiedTime == 13

\* What the git log query prints: it fails; it prints nothing (no
\* repository, untracked file); the dates of the additions, newest first;
\* a date that does not parse (-1).
GitOutputs ==
    {[fails |-> TRUE, lines |-> <<>>], NoGit,
     [fails |-> FALSE, lines |-> <<15>>], [fails |-> FALSE, lines |-> <<17, 14>>],
     [fails |-> FALSE, lines |-> <<-1>>]}

DateArgs ==
    {DefaultArgs, [DefaultArgs EXCEPT !.dry_run = TRUE],
     [DefaultArgs EXCEPT !.overwrite = TRUE]}

DateIO == {IOAllOk, [IOAllOk EXCEPT !.stat = "fail"]}

InitDates ==
    /\ \E b \in BirthTimes :
          fs = (DatedPath :> [data |-> Text(<<"x", NL>>), birth |-> b, mtime |-> ModifiedTime])
    /\ has_birthtime \in BOOLEAN
    /\ \E g \in GitOutputs : git = (DatedPath :> g)
    /\ now = 1
    /\ hist = <<>>
    /\ runs = 0
    /\ pc = "idle"
    /\ pending = {}
    /\ wargs = DefaultArgs
    /\ stats = ZeroStats

DatedRun ==
    \E args \in DateArgs, io \in DateIO : MainFile(DatedPath, args, io)

NextDates == DatedRun

SpecDates == InitDates /\ [][NextDates]_vars

(***************************************************************************)
(* SpecCompose: one file per kind of comment style, run with the options   *)
(* that shape the header: the description, --auto-description,             *)
(* --with-usage, --overwrite.                                              *)
(***************************************************************************)
ComposePaths == {<<"a", ".py">>, <<"t", ".sol">>, <<"main", ".c">>}

\* --description as typed: left at its default, empty, or a text.
ManualDescription == <<"Manual text">>
Descriptions == {PLACEHOLDER, <<>>, ManualDescription}

ComposeArgs ==
    {[DefaultArgs EXCEPT !.description = d, !.auto_description = a,
                         !.with_usage = u, !.overwrite = o] :
        d \in Descriptions, a \in BOOLEAN, u \in BOOLEAN, o \in BOOLEAN}

\* A file of one line, and one that starts with an interpreter directive.
ComposeContents == {Text(<<"x", NL>>), Text(<<SHEBANG, "x", NL, "x", NL>>)}

InitCompose ==
    /\ \E p \in ComposePaths, c \in ComposeContents : fs = (p :> NewFile(c))
    /\ InitRest

ComposeRun ==
    \E path \in DOMAIN fs, args \in ComposeArgs :
        /\ ~IsBackup(path)
        /\ MainFile(path, args, IOAllOk)

NextCompose == ComposeRun

SpecCompose == InitCompose /\ [][NextCompose]_vars

(***************************************************************************)
(* SpecCount: runs of main() on a directory and on a single file.  The     *)
(* single file is a hidden one, which no directory run lists.              *)
(***************************************************************************)
HiddenPath == <<".env">>

InitCount ==
    /\ \/ fs = (<<"a", ".py">> :> NewFile(Text(<<"x", NL>>)))
                 @@ (HiddenPath :> NewFile(Text(<<"x", NL>>)))
       \/ fs = (SkippedPath :> NewFile(Text(<<"x">>)))
                 @@ (HiddenPath :> NewFile(Text(<<"x", NL>>)))
    /\ InitRest

SingleFile == \E args \in WalkArgs, io \in WalkIO : MainFile(HiddenPath, args, io)

NextCount == StartWalk \/ VisitFile \/ WalkEnd \/ SingleFile

SpecCount == InitCount /\ [][NextCount]_vars

(***************************************************************************)
(* Reading the history.                                                    *)
(***************************************************************************)
Runs == 1..Len(hist)

\* The text of the file of transaction i before and after it.
PreData(i) == hist[i].pre[hist[i].path].data
PostData(i) == Post(i)[hist[i].path].data

Wrote(i) == hist[i].tag \in {"ADDED", "UPDATED"}

Backups(F) == {p \in DOMAIN F : IsBackup(p)}

\* Transactions i and i + 1 are two runs on one path.
Successive(i) == i + 1 \in Runs /\ hist[i].path = hist[i + 1].path

\* Runs i and i + 1 are a pair of plain runs of one file with overwrite off.
CleanPair(i) ==
    /\ Successive(i)
    /\ ~hist[i].args.overwrite /\ ~hist[i + 1].args.overwrite
    /\ ~hist[i].args.dry_run /\ ~hist[i + 1].args.dry_run
    /\ hist[i].tag # "SKIP_FILTER"
    /\ hist[i].raised = "none" /\ hist[i + 1].raised = "none"

(***************************************************************************)
(* C1.  As claimed: two successive runs with overwrite off on a file that  *)
(* passes the filter, neither run dry nor hit by an I/O failure, get ADDED *)
(* and then ALREADY, and the text of the file after the second run is its  *)
(* text after the first.                                                   *)
(***************************************************************************)
C1_AddedThenAlready ==
    \A i \in Runs :
        CleanPair(i) =>
            /\ hist[i].tag = "ADDED"
            /\ hist[i + 1].tag = "ALREADY"
            /\ PostData(i + 1) = PostData(i)

(***************************************************************************)
(* C1, amended.  Two successive runs with overwrite off on a file that     *)
(* passes the filter, neither run dry nor hit by an I/O failure: the       *)
(* second run gets ALREADY and leaves the text of the file as the first    *)
(* run left it; the first run gets ADDED when the file does not hold both  *)
(* sentinels yet, and ALREADY (changing nothing) when it does.             *)
(***************************************************************************)
C1_Idempotent ==
    \A i \in Runs :
        CleanPair(i) =>
            /\ hist[i + 1].tag = "ALREADY"
            /\ PostData(i + 1) = PostData(i)
            /\ hist[i].tag = IF already_has_header(PreData(i)) THEN "ALREADY" ELSE "ADDED"
            /\ hist[i].tag = "ALREADY" => PostData(i) = PreData(i)

C1_Witness ==
    \E i \in Runs :
        /\ Successive(i) /\ ~hist[i].args.overwrite /\ ~hist[i + 1].args.overwrite
        /\ hist[i].tag = "ADDED" /\ hist[i + 1].tag = "ALREADY"
        /\ PostData(i + 1) = PostData(i)
        /\ PostData(i) # PreData(i)

\* How often a text holds the BEGIN and the END sentinel.
SentinelPairs(data) ==
    <<Count(data, HEADER_MARKER_BEGIN), Count(data, HEADER_MARKER_END)>>

(***************************************************************************)
(* C2.  After a run that ends in ADDED or UPDATED the text of the file     *)
(* holds the BEGIN sentinel exactly once and the END sentinel exactly      *)
(* once.  Stated for the files the tool itself produces or starts from: a  *)
(* file free of sentinels, or a file carrying one header (one BEGIN, one   *)
(* END), the latter being refreshed with overwrite.                        *)
(***************************************************************************)
C2_OneSentinelPair ==
    \A i \in Runs :
        (Wrote(i) /\ SentinelPairs(PreData(i)) \in {<<0, 0>>, <<1, 1>>}) =>
            SentinelPairs(PostData(i)) = <<1, 1>>

(***************************************************************************)
(* C3.  Two successive overwrite-enabled runs with backups enabled that    *)
(* both write the file, the first of them finding no backup: afterwards    *)
(* path + ".bak" is the only backup file and holds the text the file had   *)
(* before the first of the two runs.                                       *)
(***************************************************************************)
C3_BackupOnce ==
    \A i \in Runs :
        (/\ Successive(i)
         /\ hist[i].args.overwrite /\ hist[i + 1].args.overwrite
         /\ ~hist[i].args.no_backup /\ ~hist[i + 1].args.no_backup
         /\ BakOf(hist[i].path) \notin DOMAIN hist[i].pre
         /\ Wrote(i) /\ Wrote(i + 1)) =>
            /\ Backups(Post(i + 1)) = {BakOf(hist[i].path)}
            /\ Post(i + 1)[BakOf(hist[i].path)].data = PreData(i)

C3_Witness ==
    \E i \in Runs :
        /\ Successive(i)
        /\ hist[i].args.overwrite /\ hist[i + 1].args.overwrite
        /\ ~hist[i].args.no_backup /\ ~hist[i + 1].args.no_backup
        /\ BakOf(hist[i].path) \notin DOMAIN hist[i].pre
        /\ hist[i].tag = "ADDED" /\ hist[i + 1].tag = "UPDATED"
        /\ Post(i + 1)[BakOf(hist[i].path)].data = PreData(i)
        /\ PostData(i) # PreData(i)

(***************************************************************************)
(* C4.  Once a run has created path + ".bak", no later run changes the     *)
(* text of that backup file.                                               *)
(***************************************************************************)
C4_BackupNeverChanges ==
    \A i \in Runs :
        (/\ BakOf(hist[i].path) \notin DOMAIN hist[i].pre
         /\ BakOf(hist[i].path) \in DOMAIN Post(i)) =>
            fs[BakOf(hist[i].path)].data = Post(i)[BakOf(hist[i].path)].data

(***************************************************************************)
(* C5.  As claimed: with dryRun a file that passed the filter and was read *)
(* gets DRY_RUN, and the filesystem is left as it was.                     *)
(***************************************************************************)
C5_DryRunReturnsDryRun ==
    \A i \in Runs :
        (hist[i].args.dry_run /\ hist[i].tag \notin {"SKIP_FILTER", "READ_FAIL"}) =>
            hist[i].tag = "DRY_RUN" /\ Post(i) = hist[i].pre

(***************************************************************************)
(* C5, amended.  With dryRun the filesystem is left as it was (no file     *)
(* changes, no backup appears), and the status is DRY_RUN unless the run   *)
(* ended before the dry-run check: SKIP_FILTER for a filtered file,        *)
(* READ_FAIL for an unreadable one, ALREADY for a file that holds both     *)
(* sentinels when overwrite is off.                                        *)
(***************************************************************************)
C5_DryRunPure ==
    \A i \in Runs :
        hist[i].args.dry_run =>
            /\ Post(i) = hist[i].pre
            /\ hist[i].tag \in {"DRY_RUN", "SKIP_FILTER", "READ_FAIL", "ALREADY"}
            /\ hist[i].tag = "SKIP_FILTER" =>
                  should_skip(hist[i].path, hist[i].args.include_exts, hist[i].args.exclude)
            /\ hist[i].tag = "READ_FAIL" => hist[i].raised = "read"
            /\ hist[i].tag = "ALREADY" =>
                  already_has_header(PreData(i)) /\ ~hist[i].args.overwrite

C5_Witness ==
    \E i \in Runs :
        /\ hist[i].args.dry_run /\ hist[i].tag = "DRY_RUN"
        /\ ~hist[i].args.no_backup
        /\ Post(i) = hist[i].pre
        /\ BakOf(hist[i].path) \notin DOMAIN Post(i)

(***************************************************************************)
(* C6.  A run that ends in WRITE_FAIL leaves the text of the file as it    *)
(* was before the run.                                                     *)
(***************************************************************************)
C6_FailedWriteUntouched ==
    \A i \in Runs : hist[i].tag = "WRITE_FAIL" => PostData(i) = PreData(i)

(***************************************************************************)
(* C7.  When the backup step raises, the run ends in BACKUP_FAIL, the      *)
(* write step is not executed and the file is as it was before the run.    *)
(***************************************************************************)
C7_BackupFailAborts ==
    \A i \in Runs :
        hist[i].raised = "backup" =>
            /\ hist[i].tag = "BACKUP_FAIL"
            /\ hist[i].writes = 0
            /\ Post(i)[hist[i].path] = hist[i].pre[hist[i].path]

C7_Witness ==
    \E i \in Runs :
        /\ hist[i].raised = "backup" /\ hist[i].tag = "BACKUP_FAIL"
        /\ BakOf(hist[i].path) \in DOMAIN Post(i)
        /\ Post(i)[hist[i].path] = hist[i].pre[hist[i].path]

(***************************************************************************)
(* C8.  Every run ends in one status of the closed set, and a step that    *)
(* raises is reported as the *_FAIL status of that step.                   *)
(***************************************************************************)
C8_ClosedStatusSet ==
    \A i \in Runs :
        /\ hist[i].tag \in Statuses
        /\ hist[i].raised = "read" <=> hist[i].tag = "READ_FAIL"
        /\ hist[i].raised = "backup" <=> hist[i].tag = "BACKUP_FAIL"
        /\ hist[i].raised = "write" <=> hist[i].tag = "WRITE_FAIL"

C8_Witness ==
    /\ \E i \in Runs : hist[i].raised = "read" /\ hist[i].tag = "READ_FAIL"
    /\ \E i \in Runs : hist[i].raised = "write" /\ hist[i].tag = "WRITE_FAIL"

\* The first line of a text and whether it is an interpreter directive.
FirstLineOf(data) == Splitlines(data)[1]

HasShebang(data) == Splitlines(data) # <<>> /\ StartsWith(FirstLineOf(data), SHEBANG)

(***************************************************************************)
(* C9.  A file whose first line (as str.splitlines delimits lines) starts  *)
(* with "#!": after every run that writes, the first of them and every     *)
(* refresh after it, the first line of the file is that original first     *)
(* line, and the header block the run added lies after it.                 *)
(***************************************************************************)
C9_ShebangStays ==
    \A i \in Runs :
        (HasShebang(PreData(1)) /\ \A j \in 1..i : Wrote(j)) =>
            /\ FirstLineOf(PostData(i)) = FirstLineOf(PreData(1))
            /\ Count(PostData(i), HEADER_MARKER_BEGIN)
                  = Count(PreData(i), HEADER_MARKER_BEGIN) + 1
            /\ Len(Splitlines(PostData(i))) > Len(Splitlines(PreData(i)))

C9_Witness ==
    /\ Len(hist) >= 2
    /\ HasShebang(PreData(1))
    /\ hist[1].tag = "ADDED" /\ hist[2].tag = "UPDATED"
    /\ FirstLineOf(PostData(2)) = FirstLineOf(PreData(1))

\* Index of the first license line among the first 10 lines, or -1.
LicenseIndex(data) == FirstSpdx(Take(Splitlines(data), SpdxScanLines))

(***************************************************************************)
(* C10.  A .sol file with a license-identifier line among its first 10     *)
(* lines (the first such line): after a run that writes, the lines up to   *)
(* and including that line are as before, so the line is where it was and  *)
(* the BEGIN sentinel the run wrote is on a later line.                    *)
(***************************************************************************)
C10_LicenseStaysFirst ==
    \A i \in Runs :
        (/\ Wrote(i)
         /\ Lower(SplitExt(hist[i].path)) = ".sol"
         /\ LicenseIndex(PreData(i)) # -1) =>
            LET k == LicenseIndex(PreData(i)) + 1
            IN /\ Take(Splitlines(PostData(i)), k) = Take(Splitlines(PreData(i)), k)
               /\ LineHas(Splitlines(PostData(i))[k], SPDX)
               /\ CountIn(Drop(Splitlines(PostData(i)), k), HEADER_MARKER_BEGIN)
                     = CountIn(Drop(Splitlines(PreData(i)), k), HEADER_MARKER_BEGIN) + 1

C10_Witness ==
    \E i \in Runs :
        /\ Wrote(i)
        /\ Lower(SplitExt(hist[i].path)) = ".sol"
        /\ LicenseIndex(PreData(i)) = SpdxScanLines - 1
        /\ LicenseIndex(PostData(i)) = SpdxScanLines - 1

\* The paths whose file transaction i created or changed.
Touched(i) ==
    {p \in DOMAIN Post(i) : p \notin DOMAIN hist[i].pre \/ Post(i)[p] # hist[i].pre[p]}

(***************************************************************************)
(* C11.  One transaction creates at most one backup file and overwrites    *)
(* the target at most once, it changes no file but the target and its      *)
(* backup, and it does neither when it ends in SKIP_FILTER, READ_FAIL,     *)
(* ALREADY or DRY_RUN: the filesystem is then as it was.                   *)
(***************************************************************************)
C11_AtMostOneBackupOneWrite ==
    \A i \in Runs :
        /\ hist[i].baks <= 1 /\ hist[i].writes <= 1
        /\ Touched(i) \subseteq {hist[i].path, BakOf(hist[i].path)}
        /\ BakOf(hist[i].path) \in Touched(i) => hist[i].baks = 1
        /\ hist[i].path \in Touched(i) => hist[i].writes = 1
        /\ hist[i].tag \in {"SKIP_FILTER", "READ_FAIL", "ALREADY", "DRY_RUN"} =>
              /\ hist[i].baks = 0 /\ hist[i].writes = 0
              /\ Post(i) = hist[i].pre

C11_Witness ==
    /\ \E i \in Runs :
          /\ hist[i].baks = 1 /\ hist[i].writes = 1
          /\ Touched(i) = {hist[i].path, BakOf(hist[i].path)}
    /\ \E i \in Runs : hist[i].tag = "DRY_RUN" /\ Touched(i) = {}

\* The steps of a transaction in the order of the code, and list helpers.
StepOrder ==
    <<"filter", "read", "plan", "resolve", "compose", "splice", "dry", "backup", "write">>

IsPrefix(a, b) == Len(a) <= Len(b) /\ a = SubSeq(b, 1, Len(a))

Visited(i, step) == \E k \in 1..Len(hist[i].steps) : hist[i].steps[k] = step

(***************************************************************************)
(* C12.  The steps of a transaction are an initial part of filter, read,   *)
(* plan, dry-run check, backup, write, each taken once, and the statuses   *)
(* are decided in that order: a filtered path gets SKIP_FILTER without     *)
(* being read; a failed read gets READ_FAIL before the idempotency check;  *)
(* a file with a header and no overwrite gets ALREADY before the dry-run   *)
(* check, dry run or not; a dry run gets DRY_RUN before any backup; a      *)
(* failed backup gets BACKUP_FAIL before any write.                        *)
(***************************************************************************)
C12_LinearOrder ==
    \A i \in Runs :
        LET e == hist[i]
            skip == should_skip(e.path, e.args.include_exts, e.args.exclude)
            was_read == ~skip /\ e.raised # "read"
            stops == already_has_header(PreData(i)) /\ ~e.args.overwrite
        IN /\ IsPrefix(e.steps, StepOrder)
           /\ skip => e.tag = "SKIP_FILTER" /\ ~Visited(i, "read") /\ e.raised = "none"
           /\ e.raised = "read" => e.tag = "READ_FAIL" /\ ~Visited(i, "plan")
           /\ (was_read /\ stops) => e.tag = "ALREADY" /\ ~Visited(i, "dry")
           /\ (was_read /\ ~stops /\ e.args.dry_run) =>
                 e.tag = "DRY_RUN" /\ ~Visited(i, "backup") /\ e.baks = 0
           /\ e.raised = "backup" =>
                 e.tag = "BACKUP_FAIL" /\ ~Visited(i, "write") /\ e.writes = 0
           /\ e.tag \in {"WRITE_FAIL", "ADDED", "UPDATED"} <=> Visited(i, "write")

C12_Witness ==
    /\ \E i \in Runs :
          /\ hist[i].args.dry_run /\ hist[i].tag = "ALREADY"
          /\ already_has_header(PreData(i))
    /\ \E i \in Runs : hist[i].tag = "DRY_RUN" /\ ~hist[i].args.no_backup

\* pat in path, as Python decides it: the empty str is in every str.
Occurs(pat, path) == pat = "" \/ LineHas(path, pat)

\* The extension the filter looks at.
ExtOf(i) == Lower(SplitExt(hist[i].path))

(***************************************************************************)
(* C13.  As claimed: a file gets SKIP_FILTER if and only if its            *)
(* lower-cased extension is in the non-commentable set, or the include     *)
(* list is non-empty and does not hold that extension, or some exclude     *)
(* pattern occurs in the path.                                             *)
(***************************************************************************)
C13_SkipIff ==
    \A i \in Runs :
        hist[i].tag = "SKIP_FILTER" <=>
            \/ ExtOf(i) \in SKIP_EXTS
            \/ hist[i].args.include_exts # {} /\ ExtOf(i) \notin hist[i].args.include_exts
            \/ \E pat \in hist[i].args.exclude : Occurs(pat, hist[i].path)

(***************************************************************************)
(* C13, amended.  A file gets SKIP_FILTER if and only if its lower-cased   *)
(* extension is in the non-commentable set, or the include list is         *)
(* non-empty and does not hold the lower-cased extension (the list is      *)
(* compared as typed), or some non-empty exclude pattern occurs in the     *)
(* path; an empty exclude pattern filters nothing.                         *)
(***************************************************************************)
C13_SkipIffNonEmptyPattern ==
    \A i \in Runs :
        hist[i].tag = "SKIP_FILTER" <=>
            \/ ExtOf(i) \in SKIP_EXTS
            \/ hist[i].args.include_exts # {} /\ ExtOf(i) \notin hist[i].args.include_exts
            \/ \E pat \in hist[i].args.exclude : pat # "" /\ Occurs(pat, hist[i].path)

C13_Witness ==
    /\ \E i \in Runs :
          /\ hist[i].tag = "SKIP_FILTER" /\ ExtOf(i) \notin SKIP_EXTS
          /\ hist[i].args.include_exts = {}
          /\ \E pat \in hist[i].args.exclude : pat # "" /\ Occurs(pat, hist[i].path)
    /\ \E i \in Runs : hist[i].tag # "SKIP_FILTER" /\ "" \in hist[i].args.exclude

\* The text holds the BEGIN sentinel somewhere and the END sentinel somewhere.
HoldsBoth(data) ==
    Count(data, HEADER_MARKER_BEGIN) >= 1 /\ Count(data, HEADER_MARKER_END) >= 1

(***************************************************************************)
(* C14.  The idempotency signal is true exactly for the texts that hold    *)
(* both sentinels, wherever and in whichever order; a file that passed the *)
(* filter and was read gets ALREADY exactly when the signal is true and    *)
(* overwrite is off.                                                       *)
(***************************************************************************)
C14_AlreadyIffBothSentinels ==
    \A i \in Runs :
        /\ already_has_header(PreData(i)) <=> HoldsBoth(PreData(i))
        /\ hist[i].tag \notin {"SKIP_FILTER", "READ_FAIL"} =>
              (hist[i].tag = "ALREADY" <=> (HoldsBoth(PreData(i)) /\ ~hist[i].args.overwrite))

C14_Witness ==
    \E i \in Runs :
        /\ hist[i].tag = "ALREADY" /\ ~hist[i].args.overwrite
        /\ LineHas(PreData(i)[1].body, HEADER_MARKER_END)
        /\ ~LineHas(PreData(i)[1].body, HEADER_MARKER_BEGIN)
        /\ LineHas(PreData(i)[2].body, HEADER_MARKER_BEGIN)

(***************************************************************************)
(* C15.  A run that wrote the file returns ADDED exactly when the text it  *)
(* read did not hold both sentinels, and UPDATED exactly when it did and   *)
(* overwrite was on.                                                       *)
(***************************************************************************)
C15_AddedOrUpdated ==
    \A i \in Runs :
        Wrote(i) =>
            /\ hist[i].tag = "ADDED" <=> ~HoldsBoth(PreData(i))
            /\ hist[i].tag = "UPDATED" <=> (HoldsBoth(PreData(i)) /\ hist[i].args.overwrite)

C15_Witness ==
    /\ \E i \in Runs :
          hist[i].tag = "ADDED" /\ hist[i].args.overwrite /\ ~HoldsBoth(PreData(i))
    /\ \E i \in Runs :
          hist[i].tag = "UPDATED" /\ hist[i].args.overwrite /\ HoldsBoth(PreData(i))

(***************************************************************************)
(* C16.  The text a run writes ends with a newline if and only if the text *)
(* it read ended with one.                                                 *)
(***************************************************************************)
C16_TrailingNewlineKept ==
    \A i \in Runs :
        Wrote(i) => (EndsWithNL(PostData(i)) <=> EndsWithNL(PreData(i)))

\* Transaction i got as far as resolving the creation date.
Resolved(i) == Visited(i, "resolve")

\* The oldest of the addition dates git reports for the file of
\* transaction i, or NoDate when the query gives no date.
OldestAddition(i) ==
    LET g == GitOut(hist[i].path)
    IN IF g.fails \/ g.lines = <<>> \/ \E k \in 1..Len(g.lines) : g.lines[k] < 0
       THEN NoDate
       ELSE CHOOSE d \in {g.lines[k] : k \in 1..Len(g.lines)} :
                \A k \in 1..Len(g.lines) : d <= g.lines[k]

\* The birth time the platform reports for the file of transaction i, or
\* NoDate.
BirthTime(i) ==
    IF hist[i].stat_ok /\ has_birthtime /\ hist[i].pre[hist[i].path].birth > 0
    THEN hist[i].pre[hist[i].path].birth
    ELSE NoDate

(***************************************************************************)
(* C17.  The creation date a transaction resolves is the positive birth    *)
(* time; else the oldest addition date of git; else the last-modified      *)
(* time; else, when stat fails, the current time.  Without birth-time      *)
(* support and without git history it is the last-modified time.  No       *)
(* failure of a step surfaces: the transaction ends in a status of its     *)
(* own steps.                                                              *)
(***************************************************************************)
C17_DateFallbackChain ==
    \A i \in Runs :
        Resolved(i) =>
            /\ hist[i].created =
                  IF BirthTime(i) # NoDate THEN BirthTime(i)
                  ELSE IF OldestAddition(i) # NoDate THEN OldestAddition(i)
                  ELSE IF hist[i].stat_ok THEN hist[i].pre[hist[i].path].mtime
                  ELSE hist[i].at
            /\ (~has_birthtime /\ OldestAddition(i) = NoDate /\ hist[i].stat_ok) =>
                  hist[i].created = hist[i].pre[hist[i].path].mtime
            /\ hist[i].tag \in {"DRY_RUN", "ADDED", "UPDATED"} /\ hist[i].raised = "none"

C17_Witness ==
    /\ Len(hist) >= 2 /\ Resolved(1) /\ Resolved(2)
    /\ has_birthtime /\ OldestAddition(1) # NoDate
    /\ hist[1].stat_ok /\ hist[1].created = BirthTime(1)
    /\ ~hist[2].stat_ok /\ hist[2].created = OldestAddition(2)

\* Transactions i and j resolve the date of one path in one state of the
\* filesystem (stat succeeding for both or failing for both).
SameStateCalls(i, j) ==
    /\ i < j /\ Resolved(i) /\ Resolved(j)
    /\ hist[i].path = hist[j].path
    /\ hist[i].pre = hist[j].pre
    /\ hist[i].stat_ok = hist[j].stat_ok

(***************************************************************************)
(* C18.  As claimed: two resolutions of the creation date of one path in   *)
(* one state of the filesystem and of git give the same timestamp.         *)
(***************************************************************************)
C18_SameDateTwice ==
    \A i \in Runs : \A j \in Runs :
        SameStateCalls(i, j) => hist[i].created = hist[j].created

(***************************************************************************)
(* C18, amended.  Two resolutions of the creation date of one path in one  *)
(* state of the filesystem and of git give the same timestamp when the     *)
(* birth time, git or the last-modified time produces it; when stat fails  *)
(* and git gives no date, each call returns the time of the call.          *)
(***************************************************************************)
C18_SameDateUnlessClock ==
    \A i \in Runs : \A j \in Runs :
        SameStateCalls(i, j) =>
            IF hist[i].stat_ok \/ OldestAddition(i) # NoDate
            THEN hist[i].created = hist[j].created
            ELSE hist[i].created = hist[i].at /\ hist[j].created = hist[j].at

C18_Witness ==
    \E i \in Runs : \E j \in Runs :
        /\ SameStateCalls(i, j)
        /\ hist[i].stat_ok /\ OldestAddition(i) = NoDate /\ BirthTime(i) = NoDate
        /\ hist[i].created = hist[j].created
        /\ hist[i].at # hist[j].at

\* The paths transaction i read, or tested for existence in its backup step.
Consulted(i) ==
    (IF Visited(i, "read") THEN {hist[i].path} ELSE {})
    \cup (IF Visited(i, "backup") /\ ~hist[i].args.no_backup
          THEN {BakOf(hist[i].path)} ELSE {})

(***************************************************************************)
(* C19.  Transactions on distinct paths touch disjoint files: no file      *)
(* written by the transaction on one path is read or written by the        *)
(* transaction on another path.                                            *)
(***************************************************************************)
C19_DisjointFootprints ==
    \A i \in Runs : \A j \in Runs :
        hist[i].path # hist[j].path =>
            Touched(i) \cap (Consulted(j) \cup Touched(j)) = {}

\* The transactions of directory run w, the paths they were called with,
\* the files os.walk listed for the run, the failures among them.
WalkRuns(w) == {i \in Runs : hist[i].run = w}

VisitedPaths(w) == {hist[i].path : i \in WalkRuns(w)}

ListedAtStart(w) ==
    LET first == CHOOSE i \in WalkRuns(w) : \A j \in WalkRuns(w) : i <= j
    IN IF WalkRuns(w) = {} THEN Listing(fs, wargs.with_hidden)
       ELSE Listing(hist[first].pre, hist[first].args.with_hidden)

Failures(w) ==
    {i \in WalkRuns(w) : hist[i].tag \in {"READ_FAIL", "WRITE_FAIL", "BACKUP_FAIL"}}

WalkOver(w) == w < runs \/ pc = "idle"

(***************************************************************************)
(* C20.  In a directory run every listed file is passed to the transaction *)
(* exactly once, whatever the outcomes of the files before it: no file is  *)
(* visited twice, the visited files and the files still to visit are the   *)
(* listed ones, a run that is over has visited them all, and the failed    *)
(* counter is the number of READ_FAIL, WRITE_FAIL and BACKUP_FAIL          *)
(* outcomes of the run.                                                    *)
(***************************************************************************)
C20_FailuresDoNotStopWalk ==
    \A w \in 1..runs :
        /\ \A i \in WalkRuns(w) : \A j \in WalkRuns(w) :
              hist[i].path = hist[j].path => i = j
        /\ VisitedPaths(w) \cup (IF WalkOver(w) THEN {} ELSE pending) = ListedAtStart(w)
        /\ ~WalkOver(w) => VisitedPaths(w) \cap pending = {}
        /\ w = runs =>
              /\ stats.failed = Cardinality(Failures(w))
              /\ stats.added + stats.updated + stats.already + stats.dry
                    + stats.skipped + stats.failed = Cardinality(WalkRuns(w))

C20_Witness ==
    /\ runs >= 1 /\ pc = "idle"
    /\ Cardinality(WalkRuns(runs)) = 2
    /\ \E i \in Failures(runs) : i + 1 \in WalkRuns(runs) /\ hist[i + 1].ok
    /\ stats.failed = 1

(***************************************************************************)
(* C21.  With noBackup the backup step is skipped: the transaction creates *)
(* and changes no .bak file and never ends in BACKUP_FAIL, and a run that  *)
(* got past the dry-run check goes on to the write step and ends in ADDED, *)
(* UPDATED or WRITE_FAIL.                                                  *)
(***************************************************************************)
C21_NoBackupSkipsBackup ==
    \A i \in Runs :
        hist[i].args.no_backup =>
            /\ hist[i].baks = 0
            /\ Touched(i) \cap Backups(Post(i)) = {}
            /\ Backups(Post(i)) = Backups(hist[i].pre)
            /\ hist[i].tag # "BACKUP_FAIL" /\ hist[i].raised # "backup"
            /\ (Visited(i, "dry") /\ ~hist[i].args.dry_run) =>
                  /\ Visited(i, "write")
                  /\ hist[i].tag \in {"ADDED", "UPDATED", "WRITE_FAIL"}

C21_Witness ==
    \E i \in Runs :
        /\ hist[i].args.no_backup /\ hist[i].tag = "ADDED"
        /\ Backups(Post(i)) = {}
        /\ PostData(i) # PreData(i)

\* The metadata block transaction i wrote: the comment style of its file,
\* the row of the written text that holds its BEGIN sentinel (the first
\* such row: the block goes before the text it was inserted into), and
\* line n of the block without the prefix of a single-line style.
StyleOf(i) == choose_comment_style(Lower(SplitExt(hist[i].path)))

BlockStart(i) ==
    CHOOSE b \in 1..Len(PostData(i)) :
        /\ LineHas(PostData(i)[b].body, HEADER_MARKER_BEGIN)
        /\ \A k \in 1..(b - 1) : ~LineHas(PostData(i)[k].body, HEADER_MARKER_BEGIN)

BlockLine(i, n) ==
    LET body == PostData(i)[BlockStart(i) + n - 1].body
    IN IF StyleOf(i).single THEN SubSeq(body, 3, Len(body)) ELSE body

\* The description a manual text, when one is configured, would give.
ManualFirst(i) ==
    IF hist[i].args.description \notin {<<>>, PLACEHOLDER}
    THEN hist[i].args.description
    ELSE infer_description(hist[i].path, Lower(SplitExt(hist[i].path)))

(***************************************************************************)
(* C22.  The description rendered in the header a run writes is the        *)
(* configured description when that is non-empty and not the placeholder;  *)
(* the inferred description is rendered only when the configured one is    *)
(* empty or the placeholder.                                               *)
(***************************************************************************)
C22_ManualDescriptionFirst ==
    \A i \in Runs :
        Wrote(i) => BlockLine(i, 10) = <<"   ">> \o ManualFirst(i)

\* The two pushes of the insertion point, counted in lines.
ShebangPush(lines) == IF lines # <<>> /\ StartsWith(lines[1], SHEBANG) THEN 1 ELSE 0

LicensePush(lines, ext) ==
    LET scanned == {k \in 1..Len(lines) : k <= SpdxScanLines /\ LineHas(lines[k], SPDX)}
    IN IF ext = ".sol" /\ scanned # {}
       THEN CHOOSE k \in scanned : \A m \in scanned : k <= m
       ELSE 0

ExpectedOffset(i) ==
    Max(ShebangPush(Splitlines(PreData(i))),
        LicensePush(Splitlines(PreData(i)), Lower(SplitExt(hist[i].path))))

(***************************************************************************)
(* C23.  The insertion offset is the larger of the shebang push (1 when    *)
(* the first line starts with "#!", else 0) and the license push (i + 1    *)
(* for the first line index i < 10 that holds the license token when the   *)
(* extension is .sol, else 0): the lines before the offset are written     *)
(* back first and the header block begins on the line after them.          *)
(***************************************************************************)
C23_OffsetIsMaxOfPushes ==
    \A i \in Runs :
        Wrote(i) =>
            LET k == ExpectedOffset(i)
                ext == Lower(SplitExt(hist[i].path))
            IN /\ InsertAt(Splitlines(PreData(i)), ext) = k
               /\ Take(Splitlines(PostData(i)), k) = Take(Splitlines(PreData(i)), k)
               /\ Splitlines(PostData(i))[k + 1] =
                     IF StyleOf(i).single
                     THEN <<StyleOf(i).start, " ", HEADER_MARKER_BEGIN>>
                     ELSE <<StyleOf(i).start>>

C23_Witness ==
    \E i \in Runs :
        /\ hist[i].tag = "ADDED"
        /\ Lower(SplitExt(hist[i].path)) = ".sol"
        /\ Len(PreData(i)) > SpdxScanLines
        /\ LineHas(PreData(i)[SpdxScanLines + 1].body, SPDX)
        /\ ExpectedOffset(i) = 0
        /\ LineHas(PostData(i)[1].body, HEADER_MARKER_BEGIN)

\* The rows the header of transaction i takes up in the written text.
HeaderRows(i) == Len(PostData(i)) - Len(PreData(i))

(***************************************************************************)
(* C24.  The text a run writes is the text it read with the header put in  *)
(* as one block at the insertion offset: the part before the offset first, *)
(* as it was, then the header, then the part from the offset on, as it     *)
(* was.  Stated for texts that end with a newline.                         *)
(***************************************************************************)
C24_SplicedVerbatim ==
    \A i \in Runs :
        (Wrote(i) /\ EndsWithNL(PreData(i))) =>
            LET k == ExpectedOffset(i)
                h == HeaderRows(i)
            IN /\ h > 0
               /\ SubSeq(PostData(i), 1, k) = SubSeq(PreData(i), 1, k)
               /\ SubSeq(PostData(i), k + h + 1, Len(PostData(i)))
                     = SubSeq(PreData(i), k + 1, Len(PreData(i)))


\* Every transaction up to the i-th ran with the backup enabled.
BackupEnabledUpTo(i) == \A j \in 1..i : ~hist[j].args.no_backup

(***************************************************************************)
(* C25.  With the backup enabled, a run that opens the file for writing    *)
(* finds path + ".bak" in place at that moment; and in a sequence of       *)
(* backup-enabled runs that starts without a backup, whenever the backup   *)
(* exists it holds the text the file had before the first run, also after  *)
(* a run that ended in BACKUP_FAIL or WRITE_FAIL.                          *)
(***************************************************************************)
C25_BackupHoldsOriginal ==
    \A i \in Runs :
        BackupEnabledUpTo(i) =>
            LET bak == BakOf(hist[i].path)
            IN /\ hist[i].writes = 1 => bak \in DOMAIN Post(i)
               /\ bak \in DOMAIN Post(i) => Post(i)[bak].data = PreData(1)


\* The row of the text a run wrote that closes the metadata block: the first
\* one from BlockStart(i) on that holds the END sentinel.
BlockEnd(i) ==
    CHOOSE e \in BlockStart(i)..Len(PostData(i)) :
        /\ LineHas(PostData(i)[e].body, HEADER_MARKER_END)
        /\ \A k \in BlockStart(i)..(e - 1) : ~LineHas(PostData(i)[k].body, HEADER_MARKER_END)

RowBody(i, n) == IF n \in 1..Len(PostData(i)) THEN PostData(i)[n].body ELSE <<"(no row)">>

(***************************************************************************)
(* C26.  The header a run writes is wrapped by the comment style of the    *)
(* file: for a single-line style every line of the block, both sentinel    *)
(* lines included, starts with the open token and one space and no close   *)
(* token follows; for a block style the open token is the line before the  *)
(* BEGIN sentinel line and the close token the line after the END sentinel *)
(* line, and the sentinel lines carry no prefix; in both cases exactly one *)
(* blank line follows the block.                                           *)
(***************************************************************************)
C26_WrappedByStyle ==
    \A i \in Runs :
        Wrote(i) =>
            LET b == BlockStart(i)
                e == BlockEnd(i)
                st == StyleOf(i)
            IN IF st.single
               THEN /\ \A n \in b..e : IsPrefix(<<st.start, " ">>, RowBody(i, n))
                    /\ RowBody(i, b) = <<st.start, " ", HEADER_MARKER_BEGIN>>
                    /\ RowBody(i, e) = <<st.start, " ", HEADER_MARKER_END>>
                    /\ RowBody(i, e + 1) = <<>>
                    /\ RowBody(i, e + 2) # <<>>
               ELSE /\ RowBody(i, b - 1) = <<st.start>>
                    /\ RowBody(i, b) = <<HEADER_MARKER_BEGIN>>
                    /\ RowBody(i, e) = <<HEADER_MARKER_END>>
                    /\ \A n \in b..e : ~StartsWith(RowBody(i, n), st.start)
                    /\ RowBody(i, e + 1) = <<st.end>>
                    /\ RowBody(i, e + 2) = <<>>
                    /\ RowBody(i, e + 3) # <<>>

C26_Witness ==
    \E i \in Runs :
        /\ Wrote(i)
        /\ StyleOf(i).single
        /\ BlockEnd(i) > BlockStart(i) + 1
        /\ RowBody(i, BlockEnd(i) + 2) = <<"x">>


\* The creation date the fallback chain gives for transaction i, from the
\* state the transaction found: stat, git and the clock.
ExpectedCreated(i) ==
    IF BirthTime(i) # NoDate THEN BirthTime(i)
    ELSE IF OldestAddition(i) # NoDate THEN OldestAddition(i)
    ELSE IF hist[i].stat_ok THEN hist[i].pre[hist[i].path].mtime
    ELSE hist[i].at

\* The metadata lines transaction i is to write: a function of the path,
\* the arguments, the resolved date and the clock.
ExpectedBlock(i) ==
    core_lines(Basename(hist[i].path), hist[i].args.author, ExpectedCreated(i),
               hist[i].at, hist[i].args.version, hist[i].args.license,
               EffectiveDescription(hist[i].path, Lower(SplitExt(hist[i].path)),
                                    hist[i].args))

\* The Created line of the first header in the text transaction i read.
OldCreatedLine(i) ==
    LET t == PreData(i)
        b == CHOOSE k \in 1..Len(t) :
                 /\ LineHas(t[k].body, HEADER_MARKER_BEGIN)
                 /\ \A j \in 1..(k - 1) : ~LineHas(t[j].body, HEADER_MARKER_BEGIN)
    IN t[b + 4].body

(***************************************************************************)
(* C27.  An overwrite run on a file that already has a header writes a     *)
(* header whose Created line is the date the creation-date resolver gives  *)
(* for the path, whatever the Created line of the existing header says;    *)
(* every line of the new block is given by the path, the arguments, the    *)
(* resolver and the clock, none by the existing header.                    *)
(***************************************************************************)
C27_CreatedFromResolver ==
    \A i \in Runs :
        hist[i].tag = "UPDATED" =>
            /\ BlockLine(i, 5) = <<" Created:     ", Strftime(ExpectedCreated(i))>>
            /\ \A n \in 1..Len(ExpectedBlock(i)) : BlockLine(i, n) = ExpectedBlock(i)[n]

C27_Witness ==
    \E i \in Runs :
        /\ hist[i].tag = "UPDATED"
        /\ hist[i].args.overwrite
        /\ OldCreatedLine(i) # BlockLine(i, 5)
        /\ BlockLine(i, 5) = <<" Created:     ", Strftime(hist[i].created)>>


\* The statuses a counter of the summary stands for.
TagsOf(c) ==
    CASE c = "added" -> {"ADDED"}
      [] c = "updated" -> {"UPDATED"}
      [] c = "already" -> {"ALREADY"}
      [] c = "dry" -> {"DRY_RUN"}
      [] c = "skipped" -> {"SKIP_FILTER"}
      [] c = "failed" -> {"READ_FAIL", "WRITE_FAIL", "BACKUP_FAIL"}

Tagged(w, c) == {i \in WalkRuns(w) : hist[i].tag \in TagsOf(c)}

(***************************************************************************)
(* C28.  In a run of the program, on a directory or on a single file, the  *)
(* six counters add up to the number of transactions of the run, and each  *)
(* counter is the number of transactions of the run that returned a status *)
(* it stands for: ADDED, UPDATED, ALREADY, DRY_RUN, SKIP_FILTER, or one of *)
(* the three failure statuses.                                             *)
(***************************************************************************)
C28_CountersMatchStatuses ==
    runs >= 1 =>
        /\ \A c \in DOMAIN ZeroStats : stats[c] = Cardinality(Tagged(runs, c))
        /\ stats.added + stats.updated + stats.already + stats.dry
              + stats.skipped + stats.failed = Cardinality(WalkRuns(runs))
        /\ \A i \in WalkRuns(runs) : \E c \in DOMAIN ZeroStats : hist[i].tag \in TagsOf(c)

C28_Witness ==
    /\ runs = 2 /\ pc = "idle"
    /\ \E i \in WalkRuns(1) : hist[i].path # HiddenPath /\ hist[i].tag = "WRITE_FAIL"
    /\ \E i \in WalkRuns(2) : hist[i].path = HiddenPath /\ hist[i].tag = "ADDED"
    /\ stats = [ZeroStats EXCEPT !.added = 1]


HoldsSentinel(line) ==
    LineHas(line, HEADER_MARKER_BEGIN) \/ LineHas(line, HEADER_MARKER_END)

\* The lines of a text that hold a sentinel, in their order.
SentinelLines(t) == SelectSeq(Splitlines(t), HoldsSentinel)

\* Every transaction up to the i-th wrote, the first on a text without a
\* sentinel.
WroteEachTime(i) ==
    /\ SentinelLines(PreData(1)) = <<>>
    /\ \A j \in 1..i : Wrote(j) /\ hist[j].path = hist[1].path

UsageRows(i) ==
    LET k == ExpectedOffset(i)
        last == IF StyleOf(i).single THEN BlockStart(i) - 1 ELSE BlockStart(i) - 2
    IN Splitlines(SubSeq(PostData(i), k + 1, last))

\* The usage lines in a comment style, and the blank line after them.
UsageIn(st) ==
    IF st.single
    THEN [n \in 1..Len(USAGE_LINES) |-> <<st.start, " ">> \o USAGE_LINES[n]] \o << <<>> >>
    ELSE << <<st.start>> >> \o USAGE_LINES \o << <<st.end>>, <<>> >>

(***************************************************************************)
(* C30.  With the usage block requested, the text a run writes holds the   *)
(* usage block at the insertion offset, in the comment style of the file,  *)
(* directly followed by the metadata block; the usage block holds no       *)
(* sentinel, and the next run on the file without overwrite ends in        *)
(* ALREADY.                                                                *)
(***************************************************************************)
C30_UsageBeforeMetadata ==
    \A i \in Runs :
        (Wrote(i) /\ hist[i].args.with_usage) =>
            LET usage == UsageRows(i)
            IN /\ usage = UsageIn(StyleOf(i))
               /\ \A n \in 1..Len(usage) : ~HoldsSentinel(usage[n])
               /\ Take(Splitlines(PostData(i)), ExpectedOffset(i))
                     = Take(Splitlines(PreData(i)), ExpectedOffset(i))
               /\ (Successive(i) /\ ~hist[i + 1].args.overwrite) =>
                      hist[i + 1].tag = "ALREADY"

C30_Witness ==
    \E i \in Runs :
        /\ Wrote(i) /\ hist[i].args.with_usage
        /\ ExpectedOffset(i) = 1
        /\ StyleOf(i).single
        /\ Len(UsageRows(i)) = Len(USAGE_LINES) + 1
        /\ Successive(i) /\ ~hist[i + 1].args.overwrite /\ hist[i + 1].tag = "ALREADY"

=============================================================================
